---- MODULE Spec2Model ----
(***************************************************************************)
(* Model of the Gist GEO landing page back end:                            *)
(*   - the createSignup mutation (convex/signups.ts) over the signups      *)
(*     table (convex/schema.ts);                                           *)
(*   - executeHealthCheck and sendSlackAlert (lib/health-check.ts);        *)
(*   - the cron handler GET /api/cron/health-check.                        *)
(* Strings that the code inspects character by character (emails) are      *)
(* sequences of one-character strings; all other strings are TLA+ strings. *)
(***************************************************************************)
EXTENDS Integers, Sequences, FiniteSets, TLC

VARIABLES
    signups,    \* the signups table: sequence of documents, in insertion order
    call,       \* call[c]: the createSignup invocation of client c
    history,    \* completed createSignup invocations, in commit order
    env,        \* process.env: the configuration of the server
    probe,      \* probe[p]: the executeHealthCheck call number p
    alert,      \* the sendSlackAlert call
    cron,       \* the GET /api/cron/health-check invocation
    health,     \* the response of GET /api/health
    input       \* the EmailSignupInput component and its props

vars == <<signups, call, history, env, probe, alert, cron, health, input>>

signupVars == <<signups, call, history>>

healthVars == <<env, probe, alert, cron, health>>

----------------------------------------------------------------------------
(* Bounds *)

MaxEmailLen == 5

NumClients == 2

MaxCalls == 3

NegRetries == 2

MaxRetries == 2

MaxElapsed == 1

MaxResults == 2

MaxEvents == 4

MaxPending == 2

----------------------------------------------------------------------------
(* Emails *)

Whitespace == {" "}

Alphabet == {"a", "@", "."} \cup Whitespace

RECURSIVE StringsOfLen(_)
StringsOfLen(n) ==
    IF n = 0 THEN {<<>>}
    ELSE {Append(s, ch) : s \in StringsOfLen(n - 1), ch \in Alphabet}

\* every string over Alphabet of length at most MaxEmailLen
Emails == UNION {StringsOfLen(n) : n \in 0..MaxEmailLen}

\* [^\s@]
NotSpaceNorAt(ch) == ch \notin Whitespace /\ ch # "@"

\* a regex that never rejects a second "@" (bug variant of the character class)
EmailRegexTestLax(s) ==
    \E i \in 1..Len(s) : \E j \in 1..Len(s) :
        /\ s[i] = "@"
        /\ s[j] = "."
        /\ 1 < i /\ i + 1 < j /\ j < Len(s)
        /\ \A k \in 1..Len(s) : k # i => s[k] \notin Whitespace

\* /^[^\s@]+@[^\s@]+\.[^\s@]+$/.test(s): some split of s into
\* <run> "@" <run> "." <run> with the three runs non-empty and free of
\* whitespace and "@"
EmailRegexTest(s) ==
    \E i \in 1..Len(s) : \E j \in 1..Len(s) :
        /\ s[i] = "@"
        /\ s[j] = "."
        /\ 1 < i /\ i + 1 < j /\ j < Len(s)
        /\ \A k \in 1..Len(s) : k # i => NotSpaceNorAt(s[k])

\* emails the clients of the concurrent specification submit
SampleEmails ==
    { <<"a", "@", "a", ".", "a">>,
      <<".", "@", "a", ".", "a">>,
      <<"a", "a", ".", "a">>,
      <<"a", "@", " ", ".", "a">> }

----------------------------------------------------------------------------
(* The signups table and the createSignup mutation *)

Clients == 1..NumClients

SOURCE_TAG == "landing-page"

INVALID_EMAIL == "Invalid email format"

NoOutcome == [kind |-> "none"]

Returned(dup) == [kind |-> "return", success |-> TRUE, duplicate |-> dup]

Thrown(msg) == [kind |-> "throw", message |-> msg]

\* at: the number of invocations committed before this one was submitted
IdleCall == [pc |-> "idle", email |-> <<>>, outcome |-> NoOutcome,
             reads |-> 0, writes |-> 0, at |-> 0]

\* some document of the table carries email e
Stored(table, e) == \E i \in 1..Len(table) : table[i].email = e

\* number of documents of the table that carry email e
CountOf(table, e) == Cardinality({i \in 1..Len(table) : table[i].email = e})

\* a lookup that only inspects the most recent document
FirstByEmailNewestOnly(table, e) ==
    IF Len(table) > 0 /\ table[Len(table)].email = e
    THEN <<table[Len(table)]>> ELSE <<>>

\* ctx.db.query("signups").withIndex("by_email", q => q.eq("email", e)).first()
\* <<>> stands for null, <<doc>> for the first matching document
FirstByEmail(table, e) ==
    LET hits == {i \in 1..Len(table) : table[i].email = e}
    IN  IF hits = {} THEN <<>>
        ELSE <<table[CHOOSE i \in hits : \A k \in hits : i <= k]>>

\* an insert that is lost
InsertLost(table, doc) == table

\* ctx.db.insert("signups", doc)
Insert(table, doc) == Append(table, doc)

\* a handler that forgets to return in the duplicate branch
RunCreateSignupNoReturn(table, e) ==
    IF ~EmailRegexTest(e)
    THEN [table |-> table, outcome |-> Thrown(INVALID_EMAIL),
          reads |-> 0, writes |-> 0]
    ELSE [table |-> Insert(table, [email |-> e, source |-> SOURCE_TAG]),
          outcome |-> Returned(FirstByEmail(table, e) # <<>>),
          reads |-> 1, writes |-> 1]

\* a handler that reports a duplicate as an error
RunCreateSignupDupThrows(table, e) ==
    IF ~EmailRegexTest(e)
    THEN [table |-> table, outcome |-> Thrown(INVALID_EMAIL),
          reads |-> 0, writes |-> 0]
    ELSE IF FirstByEmail(table, e) # <<>>
    THEN [table |-> table, outcome |-> Thrown("Email already registered"),
          reads |-> 1, writes |-> 0]
    ELSE [table |-> Insert(table, [email |-> e, source |-> SOURCE_TAG]),
          outcome |-> Returned(FALSE), reads |-> 1, writes |-> 1]

\* the state of the table and of the invocation after the handler has run
\* on table with argument e, as one transaction
RunCreateSignup(table, e) ==
    IF ~EmailRegexTest(e)
    THEN [table |-> table, outcome |-> Thrown(INVALID_EMAIL),
          reads |-> 0, writes |-> 0]
    ELSE IF FirstByEmail(table, e) # <<>>
    THEN [table |-> table, outcome |-> Returned(TRUE),
          reads |-> 1, writes |-> 0]
    ELSE [table |-> Insert(table, [email |-> e, source |-> SOURCE_TAG]),
          outcome |-> Returned(FALSE), reads |-> 1, writes |-> 1]

NumSubmitted == Len(history) + Cardinality({c \in Clients : call[c].pc = "pending"})

\* a client sends the mutation request; it is in flight until the store runs it
Submit(c, e) ==
    /\ call[c].pc \in {"idle", "done"}
    /\ NumSubmitted < MaxCalls
    /\ call' = [call EXCEPT ![c] = [IdleCall EXCEPT !.pc = "pending", !.email = e,
                                                     !.at = Len(history)]]
    /\ UNCHANGED <<signups, history>>
    /\ UNCHANGED <<healthVars, input>>

\* the store runs the handler of client c's request atomically
createSignup(c) ==
    /\ call[c].pc = "pending"
    /\ LET r == RunCreateSignup(signups, call[c].email)
       IN  /\ signups' = r.table
           /\ call' = [call EXCEPT ![c] = [pc |-> "done", email |-> call[c].email,
                                           outcome |-> r.outcome,
                                           reads |-> r.reads, writes |-> r.writes,
                                           at |-> call[c].at]]
           /\ history' = Append(history, [client |-> c, email |-> call[c].email,
                                          outcome |-> r.outcome,
                                          at |-> call[c].at,
                                          stored |-> Stored(signups, call[c].email),
                                          unchanged |-> (r.table = signups),
                                          inserted |-> Len(r.table) - Len(signups)])
    /\ UNCHANGED <<healthVars, input>>

\* the handler up to the end of its awaited lookup: it has thrown, returned
\* the duplicate result, or goes on to the insert
RunLookup(table, e) ==
    IF ~EmailRegexTest(e)
    THEN [pc |-> "done", outcome |-> Thrown(INVALID_EMAIL), reads |-> 0]
    ELSE IF FirstByEmail(table, e) # <<>>
    THEN [pc |-> "done", outcome |-> Returned(TRUE), reads |-> 1]
    ELSE [pc |-> "insert", outcome |-> NoOutcome, reads |-> 1]

\* an insert under a uniqueness constraint on email
RunInsertUnique(table, e) ==
    IF Stored(table, e) THEN table
    ELSE Insert(table, [email |-> e, source |-> SOURCE_TAG])

\* the awaited insert of the handler; by_email is an index, not a constraint
RunInsert(table, e) == Insert(table, [email |-> e, source |-> SOURCE_TAG])

\* a store without isolation runs the lookup of client c's request
createSignupLookup(c) ==
    /\ call[c].pc = "pending"
    /\ LET r == RunLookup(signups, call[c].email)
       IN  /\ call' = [call EXCEPT ![c] = [@ EXCEPT !.pc = r.pc,
                                                    !.outcome = r.outcome,
                                                    !.reads = r.reads]]
           /\ history' = IF r.pc = "done"
                         THEN Append(history,
                                     [client |-> c, email |-> call[c].email,
                                      outcome |-> r.outcome, at |-> call[c].at,
                                      stored |-> Stored(signups, call[c].email),
                                      unchanged |-> TRUE, inserted |-> 0])
                         ELSE history
    /\ UNCHANGED signups
    /\ UNCHANGED <<healthVars, input>>

\* the store runs the insert of client c's request, as a separate operation
createSignupInsert(c) ==
    /\ call[c].pc = "insert"
    /\ signups' = RunInsert(signups, call[c].email)
    /\ call' = [call EXCEPT ![c] = [@ EXCEPT !.pc = "done",
                                            !.outcome = Returned(FALSE),
                                            !.writes = 1]]
    /\ history' = Append(history,
                         [client |-> c, email |-> call[c].email,
                          outcome |-> Returned(FALSE), at |-> call[c].at,
                          stored |-> Stored(signups, call[c].email),
                          unchanged |-> (signups' = signups),
                          inserted |-> Len(signups') - Len(signups)])
    /\ UNCHANGED <<healthVars, input>>

SignupInit ==
    /\ signups = <<>>
    /\ call = [c \in Clients |-> IdleCall]
    /\ history = <<>>

----------------------------------------------------------------------------
(* Optional values: <<>> is undefined, <<v>> is the value v *)

Undefined == <<>>

Some(v) == <<v>>

\* JavaScript truthiness of an optional string
Truthy(o) == o # Undefined /\ o[1] # ""

\* a || b
OrElse(a, b) == IF Truthy(a) THEN a ELSE b

----------------------------------------------------------------------------
(* executeHealthCheck *)

Probes == {1, 2}

DEFAULT_RETRIES == 1

DEFAULT_DELAY_MS == 5000

Statuses == {200, 404, 503}

\* response.ok
Ok(status) == status >= 200 /\ status <= 299

\* `HTTP ${response.status}: ${response.statusText}`
HttpErrorLine(status) ==
    CASE status = 200 -> "HTTP 200: OK"
      [] status = 404 -> "HTTP 404: Not Found"
      [] status = 503 -> "HTTP 503: Service Unavailable"

TIMEOUT_MESSAGE == "The operation was aborted due to timeout"

FETCH_FAILED == "fetch failed"

\* what one awaited fetch can do: resolve with a response, or reject with
\* an Error (timeout of the AbortSignal, transport failure) or with a value
\* that is not an Error
Responses == {[kind |-> "response", status |-> st] : st \in Statuses}

Rejections ==
    { [kind |-> "throw", isError |-> TRUE, message |-> TIMEOUT_MESSAGE],
      [kind |-> "throw", isError |-> TRUE, message |-> FETCH_FAILED],
      [kind |-> "throw", isError |-> FALSE, message |-> ""] }

Outcomes == Responses \cup Rejections

NoAttempt == [kind |-> "none"]

\* error instanceof Error ? error.message : 'Unknown error'
MessageOf(o) == IF o.isError THEN o.message ELSE "Unknown error"

IdleProbe ==
    [pc |-> "idle", url |-> "", retries |-> 0, delayMs |-> 0, attempt |-> 0,
     lastError |-> "", lastStatus |-> Undefined, result |-> Undefined,
     gets |-> 0, inflight |-> 0, slept |-> 0, sleeps |-> 0, raised |-> FALSE,
     lastOutcome |-> NoAttempt, rank |-> 0]

\* the object returned when an attempt got a 2xx response
SuccessResult(pr, status, elapsed) ==
    [url |-> pr.url, success |-> TRUE, status |-> Some(status),
     error |-> Undefined, attempts |-> pr.attempt + 1,
     responseTime |-> Some(elapsed)]

\* a failure result whose status is that of the final attempt only
FailureResultFinalAttemptOnly(pr) ==
    [url |-> pr.url, success |-> FALSE,
     status |-> IF pr.lastOutcome.kind = "response" THEN pr.lastStatus
                ELSE Undefined,
     error |-> Some(pr.lastError), attempts |-> pr.retries + 1,
     responseTime |-> Undefined]

\* the object returned after the loop
FailureResult(pr) ==
    [url |-> pr.url, success |-> FALSE, status |-> pr.lastStatus,
     error |-> Some(pr.lastError), attempts |-> pr.retries + 1,
     responseTime |-> Undefined]

\* a loop head that runs one attempt too many
LoopHeadExtra(pr) ==
    IF pr.attempt <= pr.retries + 1
    THEN [pr EXCEPT !.pc = "fetch", !.gets = @ + 1, !.inflight = @ + 1]
    ELSE [pr EXCEPT !.pc = "done", !.result = Some(FailureResult(pr))]

\* the head of the for loop: issue the GET of this attempt and await it,
\* or leave the loop and return the failure result
LoopHead(pr) ==
    IF pr.attempt <= pr.retries
    THEN [pr EXCEPT !.pc = "fetch", !.gets = @ + 1, !.inflight = @ + 1]
    ELSE [pr EXCEPT !.pc = "done", !.result = Some(FailureResult(pr))]

\* executeHealthCheck(url, retries, delayMs) up to its first await
StartProbe(url, retries, delayMs) ==
    LoopHead([IdleProbe EXCEPT !.url = url, !.retries = retries,
                               !.delayMs = delayMs])

\* the try block after the awaited fetch resolved with a response
OnResponse(pr, status, elapsed) ==
    LET got == [pr EXCEPT !.inflight = @ - 1, !.lastStatus = Some(status),
                          !.lastOutcome = [kind |-> "response", status |-> status]]
    IN  IF Ok(status)
        THEN [got EXCEPT !.pc = "done",
                         !.result = Some(SuccessResult(got, status, elapsed))]
        ELSE LoopHead([got EXCEPT !.lastError = HttpErrorLine(status),
                                  !.attempt = @ + 1])

\* a catch block that sleeps after every attempt, the last included
OnRejectionAlwaysSleeps(pr, o) ==
    [pr EXCEPT !.inflight = @ - 1, !.lastError = MessageOf(o),
               !.lastOutcome = o, !.pc = "sleep"]

\* a catch block that lets the timeout escape
OnRejectionRethrowsTimeout(pr, o) ==
    LET got == [pr EXCEPT !.inflight = @ - 1, !.lastError = MessageOf(o),
                          !.lastOutcome = o]
    IN  IF o.message = TIMEOUT_MESSAGE
        THEN [got EXCEPT !.pc = "done", !.raised = TRUE]
        ELSE IF got.attempt < got.retries
        THEN [got EXCEPT !.pc = "sleep"]
        ELSE LoopHead([got EXCEPT !.attempt = @ + 1])

\* a catch block that forgets to record the message
OnRejectionKeepsError(pr, o) ==
    LET got == [pr EXCEPT !.inflight = @ - 1, !.lastOutcome = o]
    IN  IF got.attempt < got.retries
        THEN [got EXCEPT !.pc = "sleep"]
        ELSE LoopHead([got EXCEPT !.attempt = @ + 1])

\* the catch block after the awaited fetch rejected
OnRejection(pr, o) ==
    LET got == [pr EXCEPT !.inflight = @ - 1, !.lastError = MessageOf(o),
                          !.lastOutcome = o]
    IN  IF got.attempt < got.retries
        THEN [got EXCEPT !.pc = "sleep"]
        ELSE LoopHead([got EXCEPT !.attempt = @ + 1])

\* the timer of the catch block fired: next iteration
OnWake(pr) ==
    LoopHead([pr EXCEPT !.slept = @ + pr.delayMs, !.sleeps = @ + 1,
                        !.attempt = @ + 1])

\* retries is any number: negative values are included
RetryValues == (0 - NegRetries)..MaxRetries

DelayValues == {1000, DEFAULT_DELAY_MS}

PROBE_URL == "https://example.com"

\* pr is the new state of probe p: when the call has just returned, rank
\* records its place in the order in which the calls return
Ranked(p, pr) ==
    IF pr.pc = "done"
    THEN [pr EXCEPT !.rank = Cardinality({q \in Probes \ {p} : probe[q].pc = "done"}) + 1]
    ELSE pr

\* a caller invokes executeHealthCheck
CallProbe(p, retries, delayMs) ==
    /\ probe[p].pc = "idle"
    /\ probe' = [probe EXCEPT ![p] = Ranked(p, StartProbe(PROBE_URL, retries, delayMs))]
    /\ UNCHANGED <<env, alert, cron>>
    /\ UNCHANGED <<signupVars, health, input>>

\* the awaited fetch of probe p resolves
FetchResolves(p, status, elapsed) ==
    /\ probe[p].pc = "fetch"
    /\ probe' = [probe EXCEPT ![p] = Ranked(p, OnResponse(probe[p], status, elapsed))]
    /\ UNCHANGED <<env, alert, cron>>
    /\ UNCHANGED <<signupVars, health, input>>

\* the awaited fetch of probe p rejects
FetchRejects(p, o) ==
    /\ probe[p].pc = "fetch"
    /\ probe' = [probe EXCEPT ![p] = Ranked(p, OnRejection(probe[p], o))]
    /\ UNCHANGED <<env, alert, cron>>
    /\ UNCHANGED <<signupVars, health, input>>

\* the setTimeout of probe p fires
Wake(p) ==
    /\ probe[p].pc = "sleep"
    /\ probe' = [probe EXCEPT ![p] = Ranked(p, OnWake(probe[p]))]
    /\ UNCHANGED <<env, alert, cron>>
    /\ UNCHANGED <<signupVars, health, input>>

ProbeSteps ==
    \/ \E p \in Probes : \E st \in Statuses : \E t \in 0..MaxElapsed :
          FetchResolves(p, st, t)
    \/ \E p \in Probes : \E o \in Rejections : FetchRejects(p, o)
    \/ \E p \in Probes : Wake(p)

----------------------------------------------------------------------------
(* Configuration *)

CRON_SECRET_VALUE == "s3cret"

WEBHOOK_URL == "https://hooks.slack.com/services/T0/B0/x"

CONVEX_URL == "https://fearless-ibis-167.convex.cloud"

EnvDefault ==
    [CRON_SECRET |-> Some(CRON_SECRET_VALUE),
     SLACK_WEBHOOK_URL |-> Some(WEBHOOK_URL),
     NODE_ENV |-> Some("production"),
     NEXT_PUBLIC_CONVEX_URL |-> Some(CONVEX_URL)]

----------------------------------------------------------------------------
(* formatHealthAlert and sendSlackAlert *)

\* `${result.status || 'N/A'}`
StatusText(r) ==
    IF r.status # Undefined /\ r.status[1] # 0 THEN ToString(r.status[1]) ELSE "N/A"

\* `${result.error || 'Unknown error'}`
ErrorText(r) == IF Truthy(r.error) THEN r.error[1] ELSE "Unknown error"

Field(label, value) == [type |-> "mrkdwn", label |-> label, value |-> value]

\* the four fields of one failed check
FieldsOf(r) ==
    << Field("URL", r.url), Field("Status", StatusText(r)),
       Field("Attempts", ToString(r.attempts)), Field("Error", ErrorText(r)) >>

\* no filter: every result is taken as failed
FailedChecksNoFilter(results) == results

\* results.filter(r => !r.success)
FailedChecks(results) == SelectSeq(results, LAMBDA r : ~r.success)

RECURSIVE FlatMapFields(_)
FlatMapFields(rs) ==
    IF rs = <<>> THEN <<>> ELSE FieldsOf(Head(rs)) \o FlatMapFields(Tail(rs))

\* the Block Kit payload, without the wall-clock footer
formatHealthAlert(results, baseUrl) ==
    LET failedChecks == FailedChecks(results)
    IN  [text |-> "Gist GEO Health Check Failed",
         failed |-> Len(failedChecks),
         plural |-> Len(failedChecks) > 1,
         baseUrl |-> baseUrl,
         fields |-> FlatMapFields(failedChecks)]

IdleAlert ==
    [pc |-> "idle", results |-> <<>>, baseUrl |-> "", webhookUrl |-> Undefined,
     webhook |-> Undefined, message |-> Undefined, posts |-> 0, ret |-> Undefined,
     raised |-> FALSE, lastPost |-> NoAttempt]

\* a caller invokes formatHealthAlert; the payload is kept in alert.message
FormatCall(results, baseUrl) ==
    /\ alert.pc = "idle"
    /\ alert' = [IdleAlert EXCEPT !.pc = "formatted", !.results = results,
                                  !.baseUrl = baseUrl,
                                  !.message = Some(formatHealthAlert(results, baseUrl))]
    /\ UNCHANGED <<env, probe, cron>>
    /\ UNCHANGED <<signupVars, health, input>>

\* a dispatcher that tests the failed checks before the webhook
StartAlertFailedFirst(results, baseUrl, webhookUrl) ==
    LET webhook == OrElse(webhookUrl, env.SLACK_WEBHOOK_URL)
        called == [IdleAlert EXCEPT !.results = results, !.baseUrl = baseUrl,
                                    !.webhookUrl = webhookUrl, !.webhook = webhook]
    IN  IF Len(FailedChecks(results)) = 0
        THEN [called EXCEPT !.pc = "done", !.ret = Some(TRUE)]
        ELSE IF ~Truthy(webhook)
        THEN [called EXCEPT !.pc = "done", !.ret = Some(FALSE)]
        ELSE [called EXCEPT !.pc = "post", !.posts = @ + 1,
                            !.message = Some(formatHealthAlert(results, baseUrl))]

\* a dispatcher that posts whenever a webhook is present
StartAlertAlwaysPosts(results, baseUrl, webhookUrl) ==
    LET webhook == OrElse(webhookUrl, env.SLACK_WEBHOOK_URL)
        called == [IdleAlert EXCEPT !.results = results, !.baseUrl = baseUrl,
                                    !.webhookUrl = webhookUrl, !.webhook = webhook]
    IN  IF ~Truthy(webhook)
        THEN [called EXCEPT !.pc = "done", !.ret = Some(FALSE)]
        ELSE [called EXCEPT !.pc = "post", !.posts = @ + 1,
                            !.message = Some(formatHealthAlert(results, baseUrl))]

\* sendSlackAlert(results, baseUrl, webhookUrl) up to its first await
StartAlert(results, baseUrl, webhookUrl) ==
    LET webhook == OrElse(webhookUrl, env.SLACK_WEBHOOK_URL)
        called == [IdleAlert EXCEPT !.results = results, !.baseUrl = baseUrl,
                                    !.webhookUrl = webhookUrl, !.webhook = webhook]
    IN  IF ~Truthy(webhook)
        THEN [called EXCEPT !.pc = "done", !.ret = Some(FALSE)]
        ELSE IF Len(FailedChecks(results)) = 0
        THEN [called EXCEPT !.pc = "done", !.ret = Some(TRUE)]
        ELSE [called EXCEPT !.pc = "post", !.posts = @ + 1,
                            !.message = Some(formatHealthAlert(results, baseUrl))]

\* a caller invokes sendSlackAlert
CallAlert(results, baseUrl, webhookUrl) ==
    /\ alert.pc = "idle"
    /\ alert' = StartAlert(results, baseUrl, webhookUrl)
    /\ UNCHANGED <<env, probe, cron>>
    /\ UNCHANGED <<signupVars, health, input>>

\* the awaited POST resolves: 2xx returns true, anything else reads the body
PostResolves(status) ==
    /\ alert.pc = "post"
    /\ LET got == [alert EXCEPT !.lastPost = [kind |-> "response", status |-> status]]
       IN  alert' = IF Ok(status)
                    THEN [got EXCEPT !.pc = "done", !.ret = Some(TRUE)]
                    ELSE [got EXCEPT !.pc = "text"]
    /\ UNCHANGED <<env, probe, cron>>
    /\ UNCHANGED <<signupVars, health, input>>

\* a dispatcher without the try block: the rejection reaches the caller
PostRejectsPropagates(o) ==
    /\ alert.pc = "post"
    /\ alert' = [alert EXCEPT !.pc = "done", !.raised = TRUE, !.lastPost = o]
    /\ UNCHANGED <<env, probe, cron>>
    /\ UNCHANGED <<signupVars, health, input>>

\* the awaited POST rejects: caught, returns false
PostRejects(o) ==
    /\ alert.pc = "post"
    /\ alert' = [alert EXCEPT !.pc = "done", !.ret = Some(FALSE), !.lastPost = o]
    /\ UNCHANGED <<env, probe, cron>>
    /\ UNCHANGED <<signupVars, health, input>>

\* the awaited response.text() settles: returns false either way
TextSettles(resolved) ==
    /\ alert.pc = "text"
    /\ alert' = [alert EXCEPT !.pc = "done", !.ret = Some(FALSE)]
    /\ UNCHANGED <<env, probe, cron>>
    /\ UNCHANGED <<signupVars, health, input>>

AlertSteps ==
    \/ \E st \in Statuses : PostResolves(st)
    \/ \E o \in Rejections : PostRejects(o)
    \/ \E b \in BOOLEAN : TextSettles(b)

----------------------------------------------------------------------------
(* GET /api/cron/health-check *)

\* `${value}` of an optional string
Interpolate(o) == IF o = Undefined THEN "undefined" ELSE o[1]

\* an authorization step without the fail-closed test
AuthorizeFailOpen(expectedSecret, authHeader) ==
    IF ~Truthy(authHeader) \/ authHeader[1] # "Bearer " \o Interpolate(expectedSecret)
    THEN "Unauthorized"
    ELSE "ok"

\* step 1 of the handler: the error of the 401 response, or "ok"
Authorize(expectedSecret, authHeader) ==
    IF ~Truthy(expectedSecret) THEN "Cron secret not configured"
    ELSE IF ~Truthy(authHeader) \/ authHeader[1] # "Bearer " \o Interpolate(expectedSecret)
    THEN "Unauthorized"
    ELSE "ok"

\* step 2 of the handler
BaseUrl(hostHeader) ==
    LET protocol == IF env.NODE_ENV = Some("production") THEN "https" ELSE "http"
        host == OrElse(hostHeader, Some("localhost:3000"))
    IN  protocol \o "://" \o host[1]

\* scheme is the protocol the request arrived on; the handler never reads it
IdleCron ==
    [pc |-> "idle", authorization |-> Undefined, host |-> Undefined,
     scheme |-> "", baseUrl |-> "", duration |-> 0, results |-> <<>>, allPassed |-> FALSE,
     alertCalls |-> 0, response |-> Undefined]

Json(status, body) == Some([status |-> status, body |-> body])

\* results.map(r => ({url, success, status, attempts, responseTime, error}))
ResultBody(r) ==
    [url |-> r.url, success |-> r.success, status |-> r.status,
     attempts |-> r.attempts, responseTime |-> r.responseTime, error |-> r.error]

\* a summary that reports whether the alert was delivered
SummaryAlertDelivered(c) ==
    Json(200, [success |-> c.allPassed, timestamp |-> "now", duration |-> c.duration,
               results |-> [i \in 1..Len(c.results) |-> ResultBody(c.results[i])],
               alertSent |-> (alert.ret = Some(TRUE))])

\* step 6 of the handler
Summary(c) ==
    Json(200, [success |-> c.allPassed, timestamp |-> "now", duration |-> c.duration,
               results |-> [i \in 1..Len(c.results) |-> ResultBody(c.results[i])],
               alertSent |-> ~c.allPassed])

\* a handler that starts the probes before it looks at the authorization
CronGETProbesFirst(authorization, host, scheme) ==
    /\ cron.pc = "idle"
    /\ alert.pc = "idle"
    /\ \A p \in Probes : probe[p].pc = "idle"
    /\ LET verdict == Authorize(env.CRON_SECRET, authorization)
           received == [cron EXCEPT !.authorization = authorization, !.host = host,
                                    !.scheme = scheme]
       IN  /\ cron' = IF verdict # "ok"
                      THEN [received EXCEPT !.pc = "done",
                               !.response = Json(401, [error |-> verdict])]
                      ELSE [received EXCEPT !.pc = "probing", !.baseUrl = BaseUrl(host)]
           /\ probe' = [p \in Probes |->
                          IF p = 1
                          THEN StartProbe(BaseUrl(host) \o "/",
                                          DEFAULT_RETRIES, DEFAULT_DELAY_MS)
                          ELSE StartProbe(BaseUrl(host) \o "/api/health",
                                          DEFAULT_RETRIES, DEFAULT_DELAY_MS)]
    /\ UNCHANGED <<env, alert>>
    /\ UNCHANGED <<signupVars, health, input>>

\* the request arrives: steps 1 and 2, and both probes are started
CronGET(authorization, host, scheme) ==
    /\ cron.pc = "idle"
    /\ alert.pc = "idle"
    /\ \A p \in Probes : probe[p].pc = "idle"
    /\ LET verdict == Authorize(env.CRON_SECRET, authorization)
           received == [cron EXCEPT !.authorization = authorization, !.host = host,
                                    !.scheme = scheme]
       IN  IF verdict # "ok"
           THEN /\ cron' = [received EXCEPT !.pc = "done",
                                !.response = Json(401, [error |-> verdict])]
                /\ UNCHANGED probe
           ELSE /\ cron' = [received EXCEPT !.pc = "probing", !.baseUrl = BaseUrl(host)]
                /\ probe' = [p \in Probes |->
                               IF p = 1
                               THEN StartProbe(BaseUrl(host) \o "/",
                                               DEFAULT_RETRIES, DEFAULT_DELAY_MS)
                               ELSE StartProbe(BaseUrl(host) \o "/api/health",
                                               DEFAULT_RETRIES, DEFAULT_DELAY_MS)]
    /\ UNCHANGED <<env, alert>>
    /\ UNCHANGED <<signupVars, health, input>>

\* a handler that lists the results in the order the probes returned
CronProbesDoneCompletionOrder(duration) ==
    /\ cron.pc = "probing"
    /\ \A p \in Probes : probe[p].pc = "done" /\ probe[p].result # Undefined
    /\ LET byRank == [k \in 1..2 |-> CHOOSE p \in Probes : probe[p].rank = k]
           results == <<probe[byRank[1]].result[1], probe[byRank[2]].result[1]>>
           allPassed == \A i \in 1..Len(results) : results[i].success
           analysed == [cron EXCEPT !.results = results, !.allPassed = allPassed,
                                    !.duration = duration]
       IN  IF ~allPassed
           THEN /\ alert' = StartAlert(results, cron.baseUrl, Undefined)
                /\ cron' = [analysed EXCEPT !.pc = "alerting", !.alertCalls = @ + 1]
           ELSE /\ cron' = [analysed EXCEPT !.pc = "done",
                                !.response = Summary(analysed)]
                /\ UNCHANGED alert
    /\ UNCHANGED <<env, probe>>
    /\ UNCHANGED <<signupVars, health, input>>

\* a handler that decides on the first result alone
CronProbesDoneFirstOnly(duration) ==
    /\ cron.pc = "probing"
    /\ \A p \in Probes : probe[p].pc = "done" /\ probe[p].result # Undefined
    /\ LET results == <<probe[1].result[1], probe[2].result[1]>>
           allPassed == results[1].success
           analysed == [cron EXCEPT !.results = results, !.allPassed = allPassed,
                                    !.duration = duration]
       IN  IF ~allPassed
           THEN /\ alert' = StartAlert(results, cron.baseUrl, Undefined)
                /\ cron' = [analysed EXCEPT !.pc = "alerting", !.alertCalls = @ + 1]
           ELSE /\ cron' = [analysed EXCEPT !.pc = "done",
                                !.response = Summary(analysed)]
                /\ UNCHANGED alert
    /\ UNCHANGED <<env, probe>>
    /\ UNCHANGED <<signupVars, health, input>>

\* Promise.all has resolved: steps 4 and 5 up to the awaited sendSlackAlert,
\* or step 6 when every check passed
CronProbesDone(duration) ==
    /\ cron.pc = "probing"
    /\ \A p \in Probes : probe[p].pc = "done" /\ probe[p].result # Undefined
    /\ LET results == <<probe[1].result[1], probe[2].result[1]>>
           allPassed == \A i \in 1..Len(results) : results[i].success
           analysed == [cron EXCEPT !.results = results, !.allPassed = allPassed,
                                    !.duration = duration]
       IN  IF ~allPassed
           THEN /\ alert' = StartAlert(results, cron.baseUrl, Undefined)
                /\ cron' = [analysed EXCEPT !.pc = "alerting", !.alertCalls = @ + 1]
           ELSE /\ cron' = [analysed EXCEPT !.pc = "done",
                                !.response = Summary(analysed)]
                /\ UNCHANGED alert
    /\ UNCHANGED <<env, probe>>
    /\ UNCHANGED <<signupVars, health, input>>

\* a handler that answers 500 when the alert was not delivered
CronRespondFailsOnAlert ==
    /\ cron.pc = "alerting"
    /\ alert.pc = "done"
    /\ cron' = [cron EXCEPT !.pc = "done",
                    !.response = IF alert.ret = Some(TRUE) THEN Summary(cron)
                                 ELSE Json(500, [error |-> "Alert failed"])]
    /\ UNCHANGED <<env, probe, alert>>
    /\ UNCHANGED <<signupVars, health, input>>

\* the awaited sendSlackAlert has returned, or has raised and the catch block
\* has logged the error: step 6
CronRespond ==
    /\ cron.pc = "alerting"
    /\ alert.pc = "done"
    /\ cron' = [cron EXCEPT !.pc = "done", !.response = Summary(cron)]
    /\ UNCHANGED <<env, probe, alert>>
    /\ UNCHANGED <<signupVars, health, input>>

----------------------------------------------------------------------------
(* GET /api/health *)

CONVEX_ERROR == "Convex URL not configured"

ENVIRONMENT_ERROR == "Environment not configured"

\* errors.join(', ')
RECURSIVE Join(_)
Join(errors) ==
    IF errors = <<>> THEN ""
    ELSE IF Len(errors) = 1 THEN errors[1]
    ELSE errors[1] \o ", " \o Join(Tail(errors))

\* a handler that only tests whether the URL is defined
HealthResponseUnsetOnly(e) ==
    LET convexHealthy == e.NEXT_PUBLIC_CONVEX_URL # Undefined
        environmentHealthy == Truthy(e.NODE_ENV)
        allHealthy == convexHealthy /\ environmentHealthy
        errors == (IF ~convexHealthy THEN <<CONVEX_ERROR>> ELSE <<>>)
                  \o (IF ~environmentHealthy THEN <<ENVIRONMENT_ERROR>> ELSE <<>>)
    IN  [status |-> IF allHealthy THEN 200 ELSE 503,
         body |-> [status |-> IF allHealthy THEN "ok" ELSE "error",
                   timestamp |-> "now",
                   checks |-> [convex |-> convexHealthy,
                               environment |-> environmentHealthy],
                   error |-> IF allHealthy THEN Undefined ELSE Some(Join(errors))]]

\* a handler that reports the error in the body only
HealthResponseStatus200(e) ==
    LET convexUrl == e.NEXT_PUBLIC_CONVEX_URL
        convexHealthy == Truthy(convexUrl) /\ convexUrl[1] # ""
        nodeEnv == e.NODE_ENV
        environmentHealthy == Truthy(nodeEnv)
        allHealthy == convexHealthy /\ environmentHealthy
        errors == (IF ~convexHealthy THEN <<CONVEX_ERROR>> ELSE <<>>)
                  \o (IF ~environmentHealthy THEN <<ENVIRONMENT_ERROR>> ELSE <<>>)
    IN  [status |-> 200,
         body |-> [status |-> IF allHealthy THEN "ok" ELSE "error",
                   timestamp |-> "now",
                   checks |-> [convex |-> convexHealthy,
                               environment |-> environmentHealthy],
                   error |-> IF allHealthy THEN Undefined ELSE Some(Join(errors))]]

\* the try block of the handler under the configuration e; nothing in it
\* throws, so the catch block is not entered
HealthResponse(e) ==
    LET convexUrl == e.NEXT_PUBLIC_CONVEX_URL
        convexHealthy == Truthy(convexUrl) /\ convexUrl[1] # ""
        nodeEnv == e.NODE_ENV
        environmentHealthy == Truthy(nodeEnv)
        allHealthy == convexHealthy /\ environmentHealthy
        errors == (IF ~convexHealthy THEN <<CONVEX_ERROR>> ELSE <<>>)
                  \o (IF ~environmentHealthy THEN <<ENVIRONMENT_ERROR>> ELSE <<>>)
    IN  [status |-> IF allHealthy THEN 200 ELSE 503,
         body |-> [status |-> IF allHealthy THEN "ok" ELSE "error",
                   timestamp |-> "now",
                   checks |-> [convex |-> convexHealthy,
                               environment |-> environmentHealthy],
                   error |-> IF allHealthy THEN Undefined ELSE Some(Join(errors))]]

\* a request to /api/health is answered
HealthGET ==
    /\ health = Undefined
    /\ health' = Some(HealthResponse(env))
    /\ UNCHANGED <<env, probe, alert, cron>>
    /\ UNCHANGED <<signupVars, input>>

\* the GET of probe p arrives at /api/health of the service that runs the
\* cron handler, and its response settles the awaited fetch
ServeHealth(p, elapsed) ==
    /\ probe[p].pc = "fetch"
    /\ probe[p].url = cron.baseUrl \o "/api/health"
    /\ health' = Some(HealthResponse(env))
    /\ probe' = [probe EXCEPT ![p] =
                    Ranked(p, OnResponse(probe[p], HealthResponse(env).status, elapsed))]
    /\ UNCHANGED <<env, alert, cron>>
    /\ UNCHANGED <<signupVars, input>>

HealthInit ==
    /\ env = EnvDefault
    /\ probe = [p \in Probes |-> IdleProbe]
    /\ alert = IdleAlert
    /\ cron = IdleCron
    /\ health = Undefined

----------------------------------------------------------------------------
(* The EmailSignupInput component *)

DEFAULT_RESET_DELAY == 3000

INVALID_ADDRESS == "Invalid email address."

SUBMISSION_FAILED == "Submission failed."

CUSTOM_MESSAGE == "Please try again."

NETWORK_ERROR == "Network error"

\* isValidEmailFormat(email)
isValidEmailFormat(email) == EmailRegexTest(email)

\* what the user can type: nothing, or one of the sample addresses
InputValues == {<<>>} \cup SampleEmails

\* what a rejected onSubmit promise carries: an Error or another value
SubmitRejections ==
    { [isError |-> TRUE, message |-> NETWORK_ERROR],
      [isError |-> TRUE, message |-> ""],
      [isError |-> FALSE, message |-> ""] }

NoEvent == [kind |-> "none", email |-> <<>>, onSubmit |-> Undefined,
            onError |-> Undefined]

\* the component after mounting with the given props
Mounted(hasOnSubmit, errorMessage, controlled) ==
    [hasOnSubmit |-> hasOnSubmit, errorMessage |-> errorMessage,
     controlled |-> controlled, successResetDelay |-> DEFAULT_RESET_DELAY,
     internalState |-> "default", externalState |-> "default",
     email |-> <<>>, error |-> "", pending |-> <<>>,
     events |-> 0, onSubmitCalls |-> 0, onErrorCalls |-> 0, onSuccessCalls |-> 0,
     last |-> NoEvent]

\* const state = controlledState ?? internalState
StateOf(inp) == IF inp.controlled THEN inp.externalState ELSE inp.internalState

\* setState(newState): onStateChange is called, and the internal state is
\* set in uncontrolled mode; the parent of a controlled component passes the
\* value of onStateChange back as the state prop
SetState(inp, newState) ==
    IF inp.controlled THEN [inp EXCEPT !.externalState = newState]
    ELSE [inp EXCEPT !.internalState = newState]

\* errorMessage || fallback
MessageOr(inp, fallback) ==
    IF Truthy(inp.errorMessage) THEN inp.errorMessage[1] ELSE fallback

\* handleChange
OnChange(inp, value) ==
    LET typed == [inp EXCEPT !.email = value,
                             !.error = IF inp.error # "" /\ isValidEmailFormat(value)
                                       THEN "" ELSE @,
                             !.events = @ + 1,
                             !.last = [NoEvent EXCEPT !.kind = "change", !.email = value]]
    IN  SetState(typed, IF value = <<>> THEN "default" ELSE "submitted")

\* a handleSubmit without the return after the validation error
OnSubmitNoReturn(inp) ==
    LET errMsg == MessageOr(inp, INVALID_ADDRESS)
        invalid == inp.email = <<>> \/ ~isValidEmailFormat(inp.email)
        seen == [inp EXCEPT !.events = @ + 1,
                            !.last = [NoEvent EXCEPT !.kind = "submit", !.email = inp.email]]
        failed == IF invalid
                  THEN [SetState(seen, "error") EXCEPT
                           !.error = errMsg, !.onErrorCalls = @ + 1,
                           !.last.onError = Some(errMsg)]
                  ELSE seen
    IN  IF inp.hasOnSubmit
        THEN [failed EXCEPT !.pending = Append(@, inp.email),
                            !.onSubmitCalls = @ + 1,
                            !.last.onSubmit = Some(inp.email)]
        ELSE [SetState(failed, "success") EXCEPT !.error = ""]

\* handleSubmit up to its await, or to its end when it does not await
OnSubmit(inp) ==
    LET errMsg == MessageOr(inp, INVALID_ADDRESS)
        seen == [inp EXCEPT !.events = @ + 1,
                            !.last = [NoEvent EXCEPT !.kind = "submit", !.email = inp.email]]
    IN  IF inp.email = <<>> \/ ~isValidEmailFormat(inp.email)
        THEN [SetState(seen, "error") EXCEPT
                 !.error = errMsg, !.onErrorCalls = @ + 1,
                 !.last.onError = Some(errMsg)]
        ELSE IF inp.hasOnSubmit
        THEN [seen EXCEPT !.pending = Append(@, inp.email),
                          !.onSubmitCalls = @ + 1,
                          !.last.onSubmit = Some(inp.email)]
        ELSE [SetState(seen, "success") EXCEPT !.error = ""]

\* the sequence without its k-th element
Without(seq, k) == [i \in 1..(Len(seq) - 1) |-> IF i < k THEN seq[i] ELSE seq[i + 1]]

\* a continuation that forgets setError("")
OnResolveKeepsError(inp, k) ==
    SetState([inp EXCEPT !.pending = Without(@, k),
                         !.last = [NoEvent EXCEPT !.kind = "resolve",
                                                  !.email = inp.pending[k]]],
             "success")

\* handleSubmit after the awaited onSubmit promise number k resolved
OnResolve(inp, k) ==
    [SetState([inp EXCEPT !.pending = Without(@, k),
                          !.last = [NoEvent EXCEPT !.kind = "resolve",
                                                   !.email = inp.pending[k]]],
              "success")
        EXCEPT !.error = ""]

\* the catch block of handleSubmit: promise number k rejected with err
OnReject(inp, k, err) ==
    LET errMsg == MessageOr(inp, IF err.isError THEN err.message
                                 ELSE SUBMISSION_FAILED)
    IN  [SetState([inp EXCEPT !.pending = Without(@, k),
                              !.last = [NoEvent EXCEPT !.kind = "reject",
                                                       !.email = inp.pending[k],
                                                       !.onError = Some(errMsg)]],
                  "error")
            EXCEPT !.error = errMsg, !.onErrorCalls = @ + 1]

\* a timer callback that forgets setEmail("")
OnResetTimerKeepsEmail(inp) ==
    [SetState([inp EXCEPT !.last = [NoEvent EXCEPT !.kind = "reset"]], "default")
        EXCEPT !.error = "", !.onSuccessCalls = @ + 1]

\* the timer of the auto-reset effect fires
OnResetTimer(inp) ==
    [SetState([inp EXCEPT !.last = [NoEvent EXCEPT !.kind = "reset"]], "default")
        EXCEPT !.email = <<>>, !.error = "", !.onSuccessCalls = @ + 1]

\* the user edits the input; it is read-only in the success state
Change(value) ==
    /\ StateOf(input) # "success"
    /\ input.events < MaxEvents
    /\ input' = OnChange(input, value)
    /\ UNCHANGED <<signupVars, healthVars>>

\* the user submits the form; the button is disabled in the success state
SubmitForm ==
    /\ StateOf(input) # "success"
    /\ input.events < MaxEvents
    /\ Len(input.pending) < MaxPending \/ ~input.hasOnSubmit
          \/ input.email = <<>> \/ ~isValidEmailFormat(input.email)
    /\ input' = OnSubmit(input)
    /\ UNCHANGED <<signupVars, healthVars>>

\* a pending onSubmit promise resolves
SubmitResolves(k) ==
    /\ k \in 1..Len(input.pending)
    /\ input' = OnResolve(input, k)
    /\ UNCHANGED <<signupVars, healthVars>>

\* a pending onSubmit promise rejects
SubmitRejects(k, err) ==
    /\ k \in 1..Len(input.pending)
    /\ input' = OnReject(input, k, err)
    /\ UNCHANGED <<signupVars, healthVars>>

\* successResetDelay after the success state was rendered
ResetTimerFires ==
    /\ StateOf(input) = "success"
    /\ input' = OnResetTimer(input)
    /\ UNCHANGED <<signupVars, healthVars>>

\* the landing page mounts the component uncontrolled, with onSubmit and
\* without errorMessage
InputInit == input = Mounted(TRUE, Undefined, FALSE)

ErrorMessageProps == {Undefined, Some(""), Some(CUSTOM_MESSAGE)}

InitInput ==
    /\ SignupInit
    /\ HealthInit
    /\ input \in {Mounted(h, m, c) : h \in BOOLEAN, m \in ErrorMessageProps,
                                     c \in BOOLEAN}

NextInput ==
    \/ \E v \in InputValues : Change(v)
    \/ SubmitForm
    \/ \E k \in 1..MaxPending : SubmitResolves(k)
    \/ \E k \in 1..MaxPending : \E err \in SubmitRejections : SubmitRejects(k, err)
    \/ ResetTimerFires

SpecInput == InitInput /\ [][NextInput]_vars

\* a timer that stays armed fires: the effect clears it only when the state
\* leaves success
SpecInputFair == SpecInput /\ WF_vars(ResetTimerFires)

Init == SignupInit /\ HealthInit /\ InputInit

Next ==
    \/ \E c \in Clients : \E e \in SampleEmails : Submit(c, e)
    \/ \E c \in Clients : createSignup(c)

Spec == Init /\ [][Next]_vars

\* the same clients against a store that gives a mutation no isolation:
\* lookup and insert of one invocation interleave with other invocations
NextRace ==
    \/ \E c \in Clients : \E e \in SampleEmails : Submit(c, e)
    \/ \E c \in Clients : createSignupLookup(c)
    \/ \E c \in Clients : createSignupInsert(c)

SpecRace == Init /\ [][NextRace]_vars

----------------------------------------------------------------------------
(* One executeHealthCheck call *)

InitProbe == SignupInit /\ HealthInit /\ InputInit

NextProbe ==
    \/ \E r \in RetryValues : \E d \in DelayValues : CallProbe(1, r, d)
    \/ ProbeSteps

SpecProbe == InitProbe /\ [][NextProbe]_vars

----------------------------------------------------------------------------
(* One sendSlackAlert call *)

HOME_URL == "https://gistgeo.ai/"

HEALTH_URL == "https://gistgeo.ai/api/health"

\* results executeHealthCheck can return
ResultSamples ==
    { [url |-> u, success |-> TRUE, status |-> Some(200), error |-> Undefined,
       attempts |-> n, responseTime |-> Some(0)] :
          u \in {HOME_URL, HEALTH_URL}, n \in 1..2 }
    \cup
    { [url |-> u, success |-> FALSE, status |-> st, error |-> Some(msg),
       attempts |-> 2, responseTime |-> Undefined] :
          u \in {HOME_URL, HEALTH_URL}, st \in {Undefined, Some(503)},
          msg \in {TIMEOUT_MESSAGE, HttpErrorLine(503)} }

RECURSIVE ResultLists(_)
ResultLists(n) ==
    IF n = 0 THEN {<<>>}
    ELSE ResultLists(n - 1) \cup
         {Append(rs, r) : rs \in {x \in ResultLists(n - 1) : Len(x) = n - 1},
                          r \in ResultSamples}

OTHER_WEBHOOK_URL == "https://hooks.slack.com/services/T1/B1/y"

WebhookEnvs == {Undefined, Some(""), Some(WEBHOOK_URL)}

WebhookArgs == {Undefined, Some(""), Some(OTHER_WEBHOOK_URL)}

InitAlert ==
    /\ SignupInit
    /\ env \in {[EnvDefault EXCEPT !.SLACK_WEBHOOK_URL = w] : w \in WebhookEnvs}
    /\ probe = [p \in Probes |-> IdleProbe]
    /\ alert = IdleAlert
    /\ cron = IdleCron
    /\ health = Undefined
    /\ InputInit

NextAlert ==
    \/ \E rs \in ResultLists(MaxResults) : \E w \in WebhookArgs :
          CallAlert(rs, "https://gistgeo.ai", w)
    \/ AlertSteps

SpecAlert == InitAlert /\ [][NextAlert]_vars

----------------------------------------------------------------------------
(* One formatHealthAlert call *)

InitFormat == SignupInit /\ HealthInit /\ InputInit

NextFormat ==
    \E rs \in ResultLists(MaxResults) : FormatCall(rs, "https://gistgeo.ai")

SpecFormat == InitFormat /\ [][NextFormat]_vars

----------------------------------------------------------------------------
(* One request to the cron handler *)

SecretEnvs == {Undefined, Some(""), Some(CRON_SECRET_VALUE)}

AuthHeaders ==
    { Undefined, Some(""), Some("Bearer"), Some("Bearer undefined"),
      Some("Bearer wrong"), Some(CRON_SECRET_VALUE),
      Some("Bearer " \o CRON_SECRET_VALUE) }

HostHeaders == {Undefined, Some("gistgeo.ai")}

\* the protocol of the request URL
Schemes == {"http", "https"}

InitCron ==
    /\ SignupInit
    /\ env \in {[EnvDefault EXCEPT !.CRON_SECRET = s, !.SLACK_WEBHOOK_URL = w,
                                   !.NODE_ENV = n] :
                   s \in SecretEnvs, w \in {Undefined, Some(WEBHOOK_URL)},
                   n \in {Some("production"), Some("development")}}
    /\ probe = [p \in Probes |-> IdleProbe]
    /\ alert = IdleAlert
    /\ cron = IdleCron
    /\ health = Undefined
    /\ InputInit

NextCron ==
    \/ \E a \in AuthHeaders : \E h \in HostHeaders : \E sch \in Schemes :
          CronGET(a, h, sch)
    \/ ProbeSteps
    \/ \E d \in 0..MaxElapsed : CronProbesDone(d)
    \/ AlertSteps
    \/ CronRespond

SpecCron == InitCron /\ [][NextCron]_vars

----------------------------------------------------------------------------
(* One cron request whose /api/health probe is served by the service itself *)

InitSelf ==
    /\ SignupInit
    /\ env \in {[EnvDefault EXCEPT !.NEXT_PUBLIC_CONVEX_URL = u,
                                   !.SLACK_WEBHOOK_URL = w, !.NODE_ENV = n] :
                   u \in {Undefined, Some(""), Some(CONVEX_URL)},
                   w \in {Undefined, Some(WEBHOOK_URL)},
                   n \in {Some("production"), Some("development")}}
    /\ probe = [p \in Probes |-> IdleProbe]
    /\ alert = IdleAlert
    /\ cron = IdleCron
    /\ health = Undefined
    /\ InputInit

\* probe 1 (the homepage) meets any outcome; probe 2 is answered by GET
\* /api/health under the configuration of the service
NextSelf ==
    \/ \E a \in AuthHeaders : \E h \in HostHeaders : \E sch \in Schemes :
          CronGET(a, h, sch)
    \/ \E st \in Statuses : \E t \in 0..MaxElapsed : FetchResolves(1, st, t)
    \/ \E o \in Rejections : FetchRejects(1, o)
    \/ Wake(1)
    \/ \E t \in 0..MaxElapsed : ServeHealth(2, t)
    \/ \E d \in 0..MaxElapsed : CronProbesDone(d)
    \/ AlertSteps
    \/ CronRespond

SpecSelf == InitSelf /\ [][NextSelf]_vars

----------------------------------------------------------------------------
(* One request to /api/health under every configuration *)

Envs ==
    [CRON_SECRET : SecretEnvs,
     SLACK_WEBHOOK_URL : WebhookEnvs,
     NODE_ENV : {Undefined, Some(""), Some("production"), Some("development")},
     NEXT_PUBLIC_CONVEX_URL : {Undefined, Some(""), Some(CONVEX_URL)}]

InitHealth ==
    /\ SignupInit
    /\ env \in Envs
    /\ probe = [p \in Probes |-> IdleProbe]
    /\ alert = IdleAlert
    /\ cron = IdleCron
    /\ health = Undefined
    /\ InputInit

NextHealth == HealthGET

SpecHealth == InitHealth /\ [][NextHealth]_vars

----------------------------------------------------------------------------
(* One createSignup invocation on every bounded string *)

Doc(e) == [email |-> e, source |-> SOURCE_TAG]

\* tables the mutation can have produced: no document or one valid document
InitialStores == {<<>>} \cup {<<Doc(e)>> : e \in {x \in Emails : EmailRegexTest(x)}}

InitValidate ==
    /\ signups \in InitialStores
    /\ \E e \in Emails :
          call = [c \in Clients |->
                    IF c = 1 THEN [IdleCall EXCEPT !.pc = "pending", !.email = e]
                    ELSE IdleCall]
    /\ history = <<>>
    /\ HealthInit
    /\ InputInit

NextValidate == \E c \in Clients : createSignup(c)

SpecValidate == InitValidate /\ [][NextValidate]_vars

----------------------------------------------------------------------------
(* Claims about createSignup *)

AtCount(s) == Cardinality({i \in 1..Len(s) : s[i] = "@"})

HasWhitespace(s) == \E i \in 1..Len(s) : s[i] \in Whitespace

\* a "." with a non-empty part on each side, after position i
DotInDomain(s, i) == \E j \in (i + 2)..(Len(s) - 1) : s[j] = "."

\* the strings that are not of the address shape
InvalidShape(s) ==
    \/ AtCount(s) = 0
    \/ AtCount(s) > 1
    \/ HasWhitespace(s)
    \/ \E i \in 1..Len(s) : s[i] = "@" /\ (i = 1 \/ ~DotInDomain(s, i))

ValidReturn(h) == h.outcome.kind = "return"

\* C1: after any sequence of createSignup invocations the signups table
\* holds at most one document for any email
C1_AtMostOneRecordPerEmail ==
    \A i \in 1..Len(signups) : \A j \in 1..Len(signups) :
        signups[i].email = signups[j].email => i = j

\* a valid email was submitted again after another email had been stored
C1_Witness ==
    \E i \in 1..Len(history) : \E j \in 1..Len(history) :
        /\ i + 1 < j
        /\ history[i].email = history[j].email
        /\ ValidReturn(history[i]) /\ ValidReturn(history[j])
        /\ Len(signups) = 2

\* invocation j was in flight when invocation i ran
Concurrent(i, j) == i < j /\ history[j].at < i

\* C2: of two concurrent invocations with the same valid email that is not
\* stored when the first of them runs, the first returns duplicate:false,
\* the second duplicate:true, and the table holds one document for the email
C2_ConcurrentSameEmail ==
    \A i \in 1..Len(history) : \A j \in 1..Len(history) :
        ( /\ Concurrent(i, j)
          /\ history[i].email = history[j].email
          /\ ~InvalidShape(history[i].email)
          /\ ~history[i].stored )
        => /\ history[i].outcome = Returned(FALSE)
           /\ history[j].outcome = Returned(TRUE)
           /\ history[i].inserted + history[j].inserted = 1
           /\ CountOf(signups, history[i].email) = 1

C2_Witness ==
    \E i \in 1..Len(history) : \E j \in 1..Len(history) :
        /\ Concurrent(i, j)
        /\ history[i].client # history[j].client
        /\ history[i].email = history[j].email
        /\ ~history[i].stored
        /\ history[j].outcome = Returned(TRUE)

\* the invocations of email e, in commit order
CallsOf(e) == SelectSeq(history, LAMBDA h : h.email = e)

\* C3: for a valid email not yet stored, the first createSignup returns
\* {success:true, duplicate:false}, the next one {success:true,
\* duplicate:true}, and one document has been created
C3_TwiceSameEmail ==
    \A e \in SampleEmails :
        (~InvalidShape(e) /\ Len(CallsOf(e)) >= 1) =>
            /\ CallsOf(e)[1].outcome = Returned(FALSE)
            /\ CallsOf(e)[1].inserted = 1
            /\ \A k \in 2..Len(CallsOf(e)) :
                   /\ CallsOf(e)[k].outcome = Returned(TRUE)
                   /\ CallsOf(e)[k].inserted = 0
            /\ CountOf(signups, e) = 1

C3_Witness ==
    \E e \in SampleEmails :
        /\ Len(CallsOf(e)) = 2
        /\ CallsOf(e)[2].outcome = Returned(TRUE)
        /\ CountOf(signups, e) = 1

\* C4: on an email that is not of the address shape createSignup throws
\* "Invalid email format" without a store read or write; the table is unchanged
C4_InvalidEmailRejected ==
    \A c \in Clients :
        (call[c].pc = "done" /\ InvalidShape(call[c].email)) =>
            /\ call[c].outcome = Thrown(INVALID_EMAIL)
            /\ call[c].reads = 0 /\ call[c].writes = 0
            /\ Len(history) = 1 /\ history[1].unchanged

\* an email with two "@" was rejected against a non-empty table
C4_Witness ==
    \E c \in Clients :
        /\ call[c].pc = "done"
        /\ AtCount(call[c].email) > 1
        /\ call[c].outcome = Thrown(INVALID_EMAIL)
        /\ Len(signups) = 1

\* C5: on an email that is already stored createSignup returns
\* {success:true, duplicate:true} and leaves the table unchanged; every
\* invocation inserts at most once, and not at all on duplicate or invalid input
C5_DuplicateIsSilent ==
    \A i \in 1..Len(history) :
        /\ history[i].stored =>
              (history[i].outcome = Returned(TRUE) /\ history[i].unchanged)
        /\ history[i].inserted \in {0, 1}
        /\ (history[i].outcome = Returned(TRUE) \/ InvalidShape(history[i].email))
              => (history[i].inserted = 0 /\ history[i].unchanged)

C5_Witness ==
    \E i \in 1..Len(history) : \E j \in 1..Len(history) :
        /\ history[i].stored /\ history[i].outcome = Returned(TRUE)
        /\ history[j].outcome = Thrown(INVALID_EMAIL)
        /\ Len(signups) >= 1

----------------------------------------------------------------------------
(* Claims about the cron handler's authorization *)

SecretConfigured == env.CRON_SECRET # Undefined /\ env.CRON_SECRET # Some("")

\* the request carries "Bearer <secret>" for the configured secret
BearerMatches ==
    /\ SecretConfigured
    /\ cron.authorization = Some("Bearer " \o env.CRON_SECRET[1])

\* C6: the cron handler answers 401 to every request whose Authorization
\* header is absent or is not "Bearer <secret>", and to every request when
\* CRON_SECRET is unset or empty
C6_CronFailsClosed ==
    (cron.pc # "idle" /\ ~BearerMatches) =>
        /\ cron.pc = "done"
        /\ cron.response # Undefined
        /\ cron.response[1].status = 401

\* with CRON_SECRET unset, the header "Bearer undefined" was answered 401
C6_Witness ==
    /\ env.CRON_SECRET = Undefined
    /\ cron.authorization = Some("Bearer undefined")
    /\ cron.response # Undefined
    /\ cron.response[1].status = 401

----------------------------------------------------------------------------
(* Claims about executeHealthCheck *)

IsSuccessful(o) == o.kind = "response" /\ o.status >= 200 /\ o.status < 300

\* the failure description of one attempt
DescriptionOf(o) ==
    IF o.kind = "response" THEN HttpErrorLine(o.status)
    ELSE IF o.isError THEN o.message ELSE "Unknown error"

\* C7: executeHealthCheck never raises; whatever the attempts did, the call
\* ends with a result, and a failure is success:false with an error string
C7_ProbeNeverRaises ==
    \A p \in Probes :
        /\ ~probe[p].raised
        /\ probe[p].pc \in {"idle", "fetch", "sleep", "done"}
        /\ probe[p].pc = "done" =>
              /\ probe[p].result # Undefined
              /\ probe[p].result[1].success \in BOOLEAN
              /\ probe[p].result[1].attempts \in Int
              /\ ~IsSuccessful(probe[p].lastOutcome) =>
                    /\ probe[p].result[1].success = FALSE
                    /\ probe[p].result[1].error # Undefined

\* a call whose last attempt timed out has returned a failure result
C7_Witness ==
    \E p \in Probes :
        /\ probe[p].pc = "done"
        /\ probe[p].lastOutcome.kind = "throw"
        /\ probe[p].lastOutcome.isError
        /\ probe[p].lastOutcome.message = TIMEOUT_MESSAGE
        /\ probe[p].result # Undefined
        /\ probe[p].result[1].error = Some(TIMEOUT_MESSAGE)

AttemptBound(r) == IF r + 1 > 0 THEN r + 1 ELSE 0

C8_State ==
    \A p \in Probes :
        /\ probe[p].inflight \in {0, 1}
        /\ probe[p].gets <= AttemptBound(probe[p].retries)
        /\ (probe[p].result # Undefined /\ probe[p].result[1].success) =>
              /\ IsSuccessful(probe[p].lastOutcome)
              /\ probe[p].result[1].attempts = probe[p].gets

C8_Step ==
    \A p \in Probes :
        IsSuccessful(probe[p].lastOutcome) =>
            /\ probe'[p].gets = probe[p].gets
            /\ probe'[p].inflight = 0

\* C8: the GETs of one call never overlap, number at most retries+1, none is
\* issued after a 2xx response, and a success result carries the 1-based
\* index of the attempt that succeeded
C8_SequentialBoundedAttempts == [](C8_State) /\ [][C8_Step]_vars

\* a call succeeded on its third attempt
C8_Witness ==
    \E p \in Probes :
        /\ probe[p].result # Undefined
        /\ probe[p].result[1].success
        /\ probe[p].result[1].attempts = 3
        /\ probe[p].gets = 3

\* C9: when no attempt of a call got a 2xx response, the result is
\* success:false with attempts = retries+1; when attempts were made
\* (retries >= 0) all retries+1 were issued and the error is that of the last
C9_ExhaustedResult ==
    \A p \in Probes :
        (probe[p].pc = "done" /\ ~IsSuccessful(probe[p].lastOutcome)) =>
            /\ probe[p].result # Undefined
            /\ probe[p].result[1].success = FALSE
            /\ probe[p].result[1].attempts = probe[p].retries + 1
            /\ probe[p].retries >= 0 =>
                  /\ probe[p].gets = probe[p].retries + 1
                  /\ probe[p].lastOutcome.kind # "none"
                  /\ probe[p].result[1].error =
                        Some(DescriptionOf(probe[p].lastOutcome))

\* retries=1: the first attempt got a 503, the second timed out, and the
\* result carries the timeout
C9_Witness ==
    \E p \in Probes :
        /\ probe[p].pc = "done"
        /\ probe[p].retries = 1
        /\ probe[p].lastStatus = Some(503)
        /\ probe[p].lastOutcome.kind = "throw"
        /\ probe[p].result # Undefined
        /\ probe[p].result[1].attempts = 2
        /\ probe[p].result[1].error = Some(TIMEOUT_MESSAGE)

----------------------------------------------------------------------------
(* Claims about sendSlackAlert *)

Absent(o) == o = Undefined \/ o = Some("")

\* C10: with neither the webhookUrl argument nor SLACK_WEBHOOK_URL present,
\* sendSlackAlert returns false without a network call, whatever the results
C10_NoWebhookNoCall ==
    (alert.pc # "idle" /\ Absent(alert.webhookUrl) /\ Absent(env.SLACK_WEBHOOK_URL)) =>
        /\ alert.pc = "done"
        /\ alert.ret = Some(FALSE)
        /\ alert.posts = 0

\* no webhook anywhere, an all-success list: false was returned
C10_Witness ==
    /\ alert.pc = "done"
    /\ alert.webhookUrl = Undefined
    /\ env.SLACK_WEBHOOK_URL = Undefined
    /\ Len(alert.results) = 2
    /\ \A i \in 1..Len(alert.results) : alert.results[i].success
    /\ alert.ret = Some(FALSE)

\* C11 as stated: an all-success result list gives true without a network
\* call, whatever the webhook configuration
C11_Original ==
    (alert.pc # "idle" /\ \A i \in 1..Len(alert.results) : alert.results[i].success) =>
        /\ alert.pc = "done"
        /\ alert.ret = Some(TRUE)
        /\ alert.posts = 0

WebhookPresent == ~Absent(alert.webhookUrl) \/ ~Absent(env.SLACK_WEBHOOK_URL)

\* C11 (amended): with a webhook present (argument or SLACK_WEBHOOK_URL), an
\* all-success result list gives true without a network call; with no
\* webhook present it gives false, also without a network call
C11_AllSuccessNoCall ==
    (alert.pc # "idle" /\ \A i \in 1..Len(alert.results) : alert.results[i].success) =>
        /\ alert.pc = "done"
        /\ alert.posts = 0
        /\ alert.ret = Some(WebhookPresent)

\* only SLACK_WEBHOOK_URL present, two successful results: true, no POST
C11_Witness ==
    /\ alert.pc = "done"
    /\ alert.webhookUrl = Undefined
    /\ env.SLACK_WEBHOOK_URL = Some(WEBHOOK_URL)
    /\ Len(alert.results) = 2
    /\ \A i \in 1..Len(alert.results) : alert.results[i].success
    /\ alert.ret = Some(TRUE)
    /\ alert.posts = 0

SomeFailed(results) == \E i \in 1..Len(results) : results[i].success = FALSE

\* C12: with a webhook present and a failed result, sendSlackAlert issues one
\* POST and returns true exactly when the response is 2xx; a non-2xx
\* response or a rejection gives false and nothing is raised
C12_OnePostTrueIffDelivered ==
    (alert.pc # "idle" /\ WebhookPresent /\ SomeFailed(alert.results)) =>
        /\ alert.posts = 1
        /\ ~alert.raised
        /\ alert.pc \in {"post", "text", "done"}
        /\ alert.pc = "post" => alert.lastPost.kind = "none"
        /\ alert.pc = "text" => ~IsSuccessful(alert.lastPost)
        /\ alert.pc = "done" =>
              /\ alert.lastPost.kind # "none"
              /\ alert.ret = Some(IsSuccessful(alert.lastPost))

\* the POST was rejected and false was returned
C12_Witness ==
    /\ alert.pc = "done"
    /\ SomeFailed(alert.results)
    /\ alert.posts = 1
    /\ alert.lastPost.kind = "throw"
    /\ alert.ret = Some(FALSE)

----------------------------------------------------------------------------
(* Claims about the cron handler after authorization *)

Authorized == cron.pc # "idle" /\ BearerMatches

Responded(status) == cron.response # Undefined /\ cron.response[1].status = status

SummaryFields == {"success", "timestamp", "duration", "results", "alertSent"}

\* some probe has returned a failure
ProbeFailed == \E p \in Probes : probe[p].result # Undefined /\ ~probe[p].result[1].success

ProbesReturned == \A p \in Probes : probe[p].pc = "done" /\ probe[p].result # Undefined

\* C13: once authorized, the cron handler answers 200 with the summary
\* (success, timestamp, duration, results, alertSent) and nothing else,
\* whatever the probes and the alert dispatch did
C13_AlwaysSummary200 ==
    Authorized =>
        /\ cron.pc \in {"probing", "alerting", "done"}
        /\ cron.pc = "alerting" => alert.pc \in {"post", "text", "done"}
        /\ cron.pc = "done" <=> cron.response # Undefined
        /\ cron.response # Undefined =>
              /\ cron.response[1].status = 200
              /\ DOMAIN cron.response[1].body = SummaryFields
              /\ cron.response[1].body.success = ~ProbeFailed

\* both probes failed, the POST of the alert was rejected, the answer is 200
C13_Witness ==
    /\ Authorized
    /\ Responded(200)
    /\ \A p \in Probes : ~probe[p].result[1].success
    /\ alert.lastPost.kind = "throw"
    /\ alert.ret = Some(FALSE)

\* C14: sendSlackAlert is invoked exactly when a probe result has
\* success=false, and only after both probes have returned
C14_AlertIffFailure ==
    Authorized =>
        /\ alert.pc # "idle" => ProbesReturned
        /\ cron.alertCalls = IF alert.pc # "idle" THEN 1 ELSE 0
        /\ cron.pc \in {"alerting", "done"} => (alert.pc # "idle" <=> ProbeFailed)

\* only the second probe failed, and sendSlackAlert was invoked
C14_Witness ==
    /\ Authorized
    /\ ProbesReturned
    /\ probe[1].result[1].success
    /\ ~probe[2].result[1].success
    /\ alert.pc # "idle"
    /\ cron.alertCalls = 1

\* C15: the results of the response are one entry per probed URL, homepage
\* first and /api/health second, in every completion order and for every
\* combination of successes and failures
C15_ResultsInIssueOrder ==
    (Authorized /\ Responded(200)) =>
        LET rs == cron.response[1].body.results
        IN  /\ Len(rs) = Cardinality(Probes)
            /\ rs[1].url = cron.baseUrl \o "/"
            /\ rs[2].url = cron.baseUrl \o "/api/health"
            /\ \A i \in 1..Len(rs) :
                  /\ rs[i].url = probe[i].url
                  /\ rs[i].success = probe[i].result[1].success
                  /\ rs[i].status = probe[i].result[1].status
                  /\ rs[i].attempts = probe[i].result[1].attempts
                  /\ rs[i].error = probe[i].result[1].error

\* the /api/health probe returned first and succeeded, the homepage probe
\* returned second and failed
C15_Witness ==
    /\ Authorized /\ Responded(200)
    /\ probe[2].rank = 1 /\ probe[1].rank = 2
    /\ probe[2].result[1].success
    /\ ~probe[1].result[1].success

\* C16: alertSent is true exactly when a probe failed, whether the alert was
\* delivered, skipped or failed
C16_AlertSentIffFailure ==
    (Authorized /\ Responded(200)) =>
        cron.response[1].body.alertSent = ProbeFailed

\* a probe failed, no webhook is configured so nothing was posted, and
\* alertSent is true
C16_Witness ==
    /\ Authorized /\ Responded(200)
    /\ ProbeFailed
    /\ alert.pc = "done" /\ alert.posts = 0 /\ alert.ret = Some(FALSE)
    /\ cron.response[1].body.alertSent = TRUE

----------------------------------------------------------------------------
(* Claims about GET /api/health *)

\* a variable of the environment is set: defined and not the empty string
IsSet(o) == o # Undefined /\ o # Some("")

\* the error string that names every failed check
ExpectedHealthError(urlSet, envSet) ==
    IF ~urlSet /\ ~envSet THEN "Convex URL not configured, Environment not configured"
    ELSE IF ~urlSet THEN "Convex URL not configured"
    ELSE "Environment not configured"

\* C17: GET /api/health answers 200 with status "ok" exactly when
\* NEXT_PUBLIC_CONVEX_URL is set and non-empty and NODE_ENV is set; otherwise
\* 503 with status "error", checks that reflect each check, and an error
\* string that names every failed check
C17_HealthStatus ==
    health # Undefined =>
        LET urlSet == IsSet(env.NEXT_PUBLIC_CONVEX_URL)
            envSet == IsSet(env.NODE_ENV)
            r == health[1]
        IN  /\ r.status = 200 <=> (urlSet /\ envSet)
            /\ r.status \in {200, 503}
            /\ r.body.status = IF r.status = 200 THEN "ok" ELSE "error"
            /\ r.body.checks.convex = urlSet
            /\ r.body.checks.environment = envSet
            /\ r.status = 200 => r.body.error = Undefined
            /\ r.status = 503 => r.body.error = Some(ExpectedHealthError(urlSet, envSet))

\* the URL is the empty string, NODE_ENV is set: 503 with checks.convex false
C17_Witness ==
    /\ health # Undefined
    /\ env.NEXT_PUBLIC_CONVEX_URL = Some("")
    /\ env.NODE_ENV = Some("production")
    /\ health[1].status = 503
    /\ health[1].body.checks.convex = FALSE
    /\ health[1].body.error = Some("Convex URL not configured")

----------------------------------------------------------------------------
(* Claims about formatHealthAlert *)

FailedIndexes(rs) == {i \in 1..Len(rs) : rs[i].success = FALSE}

\* number of failed results before position i
FailedBefore(rs, i) == Cardinality({k \in FailedIndexes(rs) : k < i})

\* C18: the field list of formatHealthAlert consists of four fields (URL,
\* status, attempts, error) for each result with success=false, in input
\* order, and of nothing else; an all-success list gives an empty field list
C18_FieldsOfFailedOnly ==
    alert.pc = "formatted" =>
        LET rs == alert.results
            fields == alert.message[1].fields
        IN  /\ Len(fields) = 4 * Cardinality(FailedIndexes(rs))
            /\ FailedIndexes(rs) = {} => fields = <<>>
            /\ \A i \in FailedIndexes(rs) :
                  LET b == 4 * FailedBefore(rs, i)
                  IN  /\ fields[b + 1].label = "URL"
                      /\ fields[b + 1].value = rs[i].url
                      /\ fields[b + 2].label = "Status"
                      /\ fields[b + 2].value =
                            IF rs[i].status = Undefined THEN "N/A"
                            ELSE ToString(rs[i].status[1])
                      /\ fields[b + 3].label = "Attempts"
                      /\ fields[b + 3].value = ToString(rs[i].attempts)
                      /\ fields[b + 4].label = "Error"
                      /\ fields[b + 4].value =
                            IF rs[i].error \in {Undefined, Some("")}
                            THEN "Unknown error" ELSE rs[i].error[1]

\* a successful result followed by a failed one: four fields, of the second
C18_Witness ==
    /\ alert.pc = "formatted"
    /\ Len(alert.results) = 2
    /\ alert.results[1].success
    /\ ~alert.results[2].success
    /\ Len(alert.message[1].fields) = 4
    /\ alert.message[1].fields[1].value = alert.results[2].url

\* the step is a submit event of the component
SubmitEvent ==
    /\ input'.events = input.events + 1
    /\ input'.last.kind = "submit"

\* the email of the input is empty or has no valid format
InvalidInput == input.email = <<>> \/ ~EmailRegexTest(input.email)

\* the errorMessage prop when it is given and not empty, else the fallback
PropOr(fallback) ==
    IF input.errorMessage \in {Undefined, Some("")} THEN fallback
    ELSE input.errorMessage[1]

\* C19: a submit event while the input is empty or not a valid-format email
\* puts the component into the error state, sets the error message to the
\* errorMessage prop or "Invalid email address.", calls onError once with
\* that message, and calls onSubmit not at all.
C19_InvalidSubmitErrors ==
    [][(SubmitEvent /\ InvalidInput) =>
         /\ StateOf(input') = "error"
         /\ input'.error = PropOr("Invalid email address.")
         /\ input'.last.onError = Some(PropOr("Invalid email address."))
         /\ input'.onErrorCalls = input.onErrorCalls + 1
         /\ input'.last.onSubmit = Undefined
         /\ input'.onSubmitCalls = input.onSubmitCalls
         /\ input'.pending = input.pending]_vars

\* an input that is not empty and not valid was submitted while an onSubmit
\* prop was given, under a custom message
C19_Witness ==
    /\ input.last.kind = "submit"
    /\ input.last.email # <<>>
    /\ ~EmailRegexTest(input.last.email)
    /\ input.hasOnSubmit
    /\ input.errorMessage = Some(CUSTOM_MESSAGE)
    /\ StateOf(input) = "error"
    /\ input.error = CUSTOM_MESSAGE

\* the step settles a pending onSubmit promise in the given way
SettleEvent(kind) ==
    /\ Len(input'.pending) = Len(input.pending) - 1
    /\ input'.last.kind = kind

\* C20: a submit event with a valid-format email calls onSubmit with that
\* email; when the returned promise resolves the state becomes success and
\* the error text is cleared; when it rejects the state becomes error, the
\* error message is set and onError is invoked with it.
C20_ValidSubmitSettles ==
    [][/\ (SubmitEvent /\ ~InvalidInput /\ input.hasOnSubmit) =>
            /\ input'.last.onSubmit = Some(input.email)
            /\ input'.onSubmitCalls = input.onSubmitCalls + 1
            /\ input'.pending = Append(input.pending, input.email)
            /\ input'.last.onError = Undefined
       /\ SettleEvent("resolve") =>
            /\ StateOf(input') = "success"
            /\ input'.error = ""
            /\ input'.onErrorCalls = input.onErrorCalls
       /\ SettleEvent("reject") =>
            /\ StateOf(input') = "error"
            /\ \E err \in SubmitRejections :
                  input'.error = PropOr(IF err.isError THEN err.message
                                        ELSE "Submission failed.")
            /\ input'.last.onError = Some(input'.error)
            /\ input'.onErrorCalls = input.onErrorCalls + 1]_vars

\* a promise resolved after an earlier one had rejected
C20_Witness ==
    /\ input.last.kind = "resolve"
    /\ EmailRegexTest(input.last.email)
    /\ input.onSubmitCalls = 2
    /\ input.onErrorCalls = 1
    /\ StateOf(input) = "success"
    /\ input.error = ""

\* the uncontrolled component is in the success state
InSuccess == ~input.controlled /\ StateOf(input) = "success"

\* the component is back in the default state, input and error text empty
ResetDone ==
    /\ StateOf(input) = "default"
    /\ input.email = <<>>
    /\ input.error = ""

\* C21: whenever the uncontrolled component is in the success state, it
\* eventually returns to the default state with the input cleared and the
\* error text empty, unless another event (a rejection of a pending promise)
\* takes it out of success first; onSuccess is called at that reset, once,
\* and at no other step.
C21_SuccessAutoResets ==
    /\ InSuccess ~> ((input.last.kind = "reset" /\ ResetDone)
                       \/ StateOf(input) = "error")
    /\ [][~input.controlled =>
            /\ (input'.onSuccessCalls # input.onSuccessCalls) =>
                  /\ StateOf(input) = "success"
                  /\ input'.last.kind = "reset"
                  /\ input'.onSuccessCalls = input.onSuccessCalls + 1
            /\ (input'.last.kind = "reset" /\ input' # input) =>
                  /\ StateOf(input) = "success"
                  /\ StateOf(input') = "default"
                  /\ input'.email = <<>>
                  /\ input'.error = ""
                  /\ input'.onSuccessCalls = input.onSuccessCalls + 1]_vars

\* the uncontrolled component was reset after a resolved submission
C21_Witness ==
    /\ ~input.controlled
    /\ input.hasOnSubmit
    /\ input.last.kind = "reset"
    /\ input.onSubmitCalls = 1
    /\ input.onSuccessCalls = 1
    /\ ResetDone

----------------------------------------------------------------------------
(* Claims about the delays and the counts of executeHealthCheck *)

\* C22: whenever an attempt fails and attempts remain, the call sleeps
\* delayMs before it issues the next GET, after a non-2xx response as after
\* a transport exception: every GET but the first follows one more sleep.
C22_SleepsBeforeEveryRetry ==
    [][\A p \in Probes :
          (probe[p].gets >= 1 /\ probe'[p].gets = probe[p].gets + 1) =>
              /\ probe'[p].sleeps = probe[p].sleeps + 1
              /\ probe'[p].slept = probe[p].slept + probe[p].delayMs]_vars

\* C23: a call sleeps only when another attempt follows and never after a
\* 2xx response; a returned call slept less often than it issued GETs; a 2xx
\* on the first attempt gives success:true, attempts:1 and no sleep at all.
C23_NoSleepAfterLastOrOk ==
    \A p \in Probes :
        /\ probe[p].pc = "sleep" =>
              /\ probe[p].attempt < probe[p].retries
              /\ ~IsSuccessful(probe[p].lastOutcome)
        /\ (probe[p].pc = "done" /\ probe[p].gets >= 1) =>
              probe[p].sleeps < probe[p].gets
        /\ (probe[p].pc = "done" /\ probe[p].gets = 0) => probe[p].sleeps = 0
        /\ (probe[p].pc = "done" /\ probe[p].gets = 1
               /\ IsSuccessful(probe[p].lastOutcome)) =>
              /\ probe[p].result # Undefined
              /\ probe[p].result[1].success
              /\ probe[p].result[1].attempts = 1
              /\ probe[p].sleeps = 0
              /\ probe[p].slept = 0

\* a call that slept once and then failed on its last attempt has returned
C23_Witness ==
    \E p \in Probes :
        /\ probe[p].pc = "done"
        /\ probe[p].retries = 1
        /\ probe[p].gets = 2
        /\ probe[p].sleeps = 1
        /\ probe[p].lastOutcome.kind = "throw"
        /\ probe[p].result # Undefined
        /\ ~probe[p].result[1].success

\* C24: for every retries, negative values included, the attempts field of
\* the returned result equals the number of GETs the call issued.
C24_AttemptsCountGets ==
    \A p \in Probes :
        (probe[p].pc = "done" /\ probe[p].result # Undefined) =>
            probe[p].result[1].attempts = probe[p].gets

\* C28 as stated: in a failed result status and error describe the final
\* attempt; status is absent when that attempt ended in an exception.
C28_Original ==
    \A p \in Probes :
        (probe[p].pc = "done" /\ probe[p].result # Undefined
           /\ ~probe[p].result[1].success /\ probe[p].retries >= 0) =>
            /\ probe[p].result[1].error = Some(DescriptionOf(probe[p].lastOutcome))
            /\ probe[p].lastOutcome.kind = "response" =>
                  probe[p].result[1].status = Some(probe[p].lastOutcome.status)
            /\ probe[p].lastOutcome.kind = "throw" =>
                  probe[p].result[1].status = Undefined

\* the step is the settling of the awaited fetch of probe p by a rejection
RejectionStep(p) ==
    /\ probe[p].pc = "fetch"
    /\ probe'[p] # probe[p]
    /\ probe'[p].lastOutcome.kind = "throw"

\* C28: in a failed result error describes the final attempt, and status is
\* the code of the most recent attempt that received a response: that of the
\* final attempt when it received one, else the one an earlier attempt left
\* (an exception never changes the recorded status), absent when no attempt
\* received a response.
C28_LastRecordedStatus ==
    /\ [](\A p \in Probes :
            /\ (probe[p].pc = "done" /\ probe[p].result # Undefined
                   /\ ~probe[p].result[1].success /\ probe[p].retries >= 0) =>
                  /\ probe[p].result[1].error =
                        Some(DescriptionOf(probe[p].lastOutcome))
                  /\ probe[p].result[1].status = probe[p].lastStatus
                  /\ probe[p].lastOutcome.kind = "response" =>
                        probe[p].result[1].status = Some(probe[p].lastOutcome.status)
            /\ (probe[p].gets = 0 /\ probe[p].pc # "idle") =>
                  probe[p].lastStatus = Undefined)
    /\ [][\A p \in Probes :
              /\ RejectionStep(p) => probe'[p].lastStatus = probe[p].lastStatus
              /\ (probe[p].pc = "idle" /\ probe'[p].pc # "idle") =>
                    probe'[p].lastStatus = Undefined]_vars

\* retries=1: a 404, then a transport failure; the result carries both
C28_Witness ==
    \E p \in Probes :
        /\ probe[p].pc = "done"
        /\ probe[p].retries = 1
        /\ probe[p].lastOutcome.kind = "throw"
        /\ probe[p].result # Undefined
        /\ probe[p].result[1].status = Some(404)
        /\ probe[p].result[1].error = Some(FETCH_FAILED)

----------------------------------------------------------------------------
(* Claims about createSignup on a store without isolation *)

\* C25: when lookup and insert are separate store operations and by_email
\* is no uniqueness constraint, a lookup that finds no match lets the
\* invocation go on to its insert, and that insert adds a document whatever
\* the table holds by then; so an email is stored more than once exactly
\* when some invocation inserted it while it was already stored.
C25_RaceInsertsTwice ==
    /\ [](\A e \in SampleEmails :
            CountOf(signups, e) > 1 <=>
                \E i \in 1..Len(history) :
                    /\ history[i].email = e
                    /\ history[i].inserted = 1
                    /\ history[i].stored)
    /\ [][\A c \in Clients :
              /\ ( /\ call[c].pc = "pending" /\ call'[c].pc # "pending"
                   /\ ~InvalidShape(call[c].email)
                   /\ ~Stored(signups, call[c].email) ) =>
                    /\ call'[c].pc = "insert"
                    /\ signups' = signups
              /\ (call[c].pc = "insert" /\ call'[c].pc = "done") =>
                    /\ CountOf(signups', call[c].email)
                          = CountOf(signups, call[c].email) + 1
                    /\ call'[c].outcome = Returned(FALSE)]_vars

\* two clients were told duplicate:false for one email, which is stored twice
C25_Witness ==
    \E i \in 1..Len(history) : \E j \in 1..Len(history) :
        /\ i < j
        /\ history[i].client # history[j].client
        /\ history[i].email = history[j].email
        /\ history[i].outcome = Returned(FALSE)
        /\ history[j].outcome = Returned(FALSE)
        /\ CountOf(signups, history[i].email) = 2

----------------------------------------------------------------------------
(* Claims about the requests the cron handler sends *)

\* C26: the base URL the cron handler probes is the protocol of the incoming
\* request, "://", and the host of the incoming request, and both probes
\* are sent to it.
C26_BaseUrlFromRequest ==
    (Authorized /\ cron.host # Undefined) =>
        /\ cron.baseUrl = cron.scheme \o "://" \o cron.host[1]
        /\ probe[1].url = cron.baseUrl \o "/"
        /\ probe[2].url = cron.baseUrl \o "/api/health"

\* C27: no health-check GET and no webhook POST is issued unless the
\* authorization check has succeeded; a request answered 401 has started no
\* probe and no alert.
C27_NoEffectBeforeAuthorized ==
    /\ ((\E p \in Probes : probe[p].pc # "idle" \/ probe[p].gets > 0)
          \/ alert.pc # "idle" \/ alert.posts > 0 \/ cron.alertCalls > 0)
            => Authorized
    /\ Responded(401) =>
          /\ cron.pc = "done"
          /\ \A p \in Probes : probe[p] = IdleProbe
          /\ alert = IdleAlert
          /\ cron.alertCalls = 0

\* a request with a wrong bearer token was answered 401
C27_Witness ==
    /\ Responded(401)
    /\ env.CRON_SECRET = Some(CRON_SECRET_VALUE)
    /\ cron.authorization = Some("Bearer wrong")
    /\ cron.host # Undefined
    /\ \A p \in Probes : probe[p].gets = 0

\* C29: at most one onSubmit call of the component is pending at any time.
C29_AtMostOnePending == Len(input.pending) <= 1

----------------------------------------------------------------------------
(* End to end: the cron handler probing its own /api/health *)

ConvexUrlMissing == env.NEXT_PUBLIC_CONVEX_URL \in {Undefined, Some("")}

\* C30: with the data-store URL unset or empty, an authorized cron request
\* whose /api/health probe reaches the service gets 503 on both attempts;
\* its /api/health result is success:false, status 503, attempts 2, the
\* overall success is false, and an alert is attempted (alertSent true).
C30_EndToEndUnhealthy ==
    (Authorized /\ ConvexUrlMissing) =>
        /\ health # Undefined => health[1].status = 503
        /\ probe[2].gets <= 2
        /\ probe[2].result # Undefined =>
              /\ probe[2].gets = 2
              /\ probe[2].result[1].url = cron.baseUrl \o "/api/health"
              /\ probe[2].result[1].success = FALSE
              /\ probe[2].result[1].status = Some(503)
              /\ probe[2].result[1].attempts = 2
        /\ cron.response # Undefined =>
              /\ cron.response[1].status = 200
              /\ cron.response[1].body.results[2].url = cron.baseUrl \o "/api/health"
              /\ cron.response[1].body.results[2].success = FALSE
              /\ cron.response[1].body.results[2].status = Some(503)
              /\ cron.response[1].body.results[2].attempts = 2
              /\ cron.response[1].body.success = FALSE
              /\ cron.response[1].body.alertSent = TRUE
              /\ cron.alertCalls = 1

\* the URL is empty, the homepage probe succeeded, and the handler answered
C30_Witness ==
    /\ Authorized
    /\ env.NEXT_PUBLIC_CONVEX_URL = Some("")
    /\ cron.response # Undefined
    /\ probe[1].result # Undefined
    /\ probe[1].result[1].success
    /\ probe[2].gets = 2
    /\ cron.response[1].body.alertSent = TRUE

====
